---- MODULE Spec2Model ----
(***************************************************************************)
(* TACoChildApplication / TestnetTACoChildApplication (src/unnamed/part_000,*)
(* lines 128-407): the staking-authorization registry that mirrors the     *)
(* operator bindings and authorizations pushed by a root application and   *)
(* lets a coordinator confirm operators.  The model is the storage of one  *)
(* deployed (proxied) TestnetTACoChildApplication, which exposes every     *)
(* function of TACoChildApplication plus the role-gated force* entry       *)
(* points; one action per external function, one transaction per step.     *)
(* A reverted transaction leaves the storage unchanged and emits nothing.  *)
(*                                                                         *)
(* CoinbaseWalletConnector (src/unnamed/part_001): the browser wallet      *)
(* connector, one connector object and the page's window.ethereum; a call  *)
(* is a sequence of steps cut where the code awaits the outside world      *)
(* (provider detection, the two RPC replies).                              *)
(***************************************************************************)
EXTENDS Integers, Sequences, FiniteSets, TLC

\* ------------------------------------------------------------------ bounds

\* Non-zero addresses are 1..NumAddr; 0 is address(0).
NumAddr == 3
\* Staking providers named in calls are 0..MaxProvider.
MaxProvider == 2
\* type(uint96).max, scaled down: amounts are 0..MaxUint96.
MaxUint96 == 2
\* Largest timestamp used for endDeauthorization and block.timestamp.
MaxTime == 1
\* Largest _cohortDuration passed to getActiveStakingProviders.
MaxDuration == 2
\* type(uint256).max, scaled down (always above MaxTime + MaxDuration).
MaxUint256 == 6
\* Update events the connector may emit before the page stops calling it.
MaxUpdates == 2

Addr == 0 .. NumAddr
Senders == 1 .. NumAddr
Providers == 0 .. MaxProvider
Amounts == 0 .. MaxUint96
Times == 0 .. MaxTime

\* ------------------------------------------------------- immutable fields

\* ITACoChildToRoot public immutable rootApplication (non-zero).
rootApplication == 1
\* uint96 public immutable minimumAuthorization (> 0).
minimumAuthorization == 1

\* ------------------------------------------------------------------ state

VARIABLES
    stakingProviderInfo,        \* mapping(address => StakingProviderInfo)
    stakingProviders,           \* address[]
    operatorToStakingProvider,  \* mapping(address => address)
    coordinator,                \* address
    initialized,                \* Initializable: the initializer has run
    updaters,                   \* holders of UPDATE_ROLE
    last,                       \* observable outcome of the latest call
    everBound,                  \* history: providers ever given a non-zero operator
    confirmedSince,             \* history: operators confirmed since the last
                                \* effective operator update
    replaced,                   \* history: the operator that the latest call
                                \* took away from the provider it named (0: none)
    ethereum,                   \* window.ethereum, as injected by the browser
    provider,                   \* CoinbaseWalletConnector.provider
    pending,                    \* the connector call in flight and where it waits
    updates,                    \* what connector.update has emitted, in order
    result                      \* how the latest connector call ended

storage == <<stakingProviderInfo, stakingProviders, operatorToStakingProvider,
             coordinator, initialized, updaters>>
history == <<everBound, confirmedSince, replaced>>
registry == <<stakingProviderInfo, stakingProviders, operatorToStakingProvider,
              coordinator, initialized, updaters, last, everBound, confirmedSince,
              replaced>>
wallet == <<ethereum, provider, pending, updates, result>>
vars == <<stakingProviderInfo, stakingProviders, operatorToStakingProvider,
          coordinator, initialized, updaters, last, everBound, confirmedSince,
          replaced, ethereum, provider, pending, updates, result>>

\* struct StakingProviderInfo, zero-initialised.
StakingProviderInfo ==
    [operator |-> 0, authorized |-> 0, operatorConfirmed |-> FALSE,
     index |-> 0, deauthorizing |-> 0, endDeauthorization |-> 0]

\* The outcome of a call: whether it returned, the events it emitted, the
\* calls it made to the root application, and for a view its arguments and
\* return value (a call that changes the state records its arguments too).
Outcome(op, sender, ok, events, rootCalls, args, ret) ==
    [op |-> op, sender |-> sender, ok |-> ok, events |-> events,
     rootCalls |-> rootCalls, args |-> args, ret |-> ret]

\* window.ethereum when no wallet is injected; an injected object has its
\* own isWalletLink flag and the list window.ethereum.providers of the
\* wallets behind it, each with its flag (a missing flag reads as false).
NoEthereum == [present |-> FALSE, isWalletLink |-> FALSE, providers |-> <<>>]
\* this.provider when undefined, and new Web3Provider(injectedProvider, 'any'):
\* injected is 0 for window.ethereum itself, i for window.ethereum.providers[i].
NoProvider == [set |-> FALSE, injected |-> 0]
Web3Provider(injectedProvider) == [set |-> TRUE, injected |-> injectedProvider]
\* No connector call is in flight.
NoCall == [op |-> "none", pc |-> "idle", chainId |-> ""]
\* How a connector call ended: resolved (ok) or rejected with an Error whose
\* message is error, the value it resolved to (a provider for
\* getCoinbaseProvider), whether it opened GET_COINBASE_LINK, and what it
\* wrote to the console.
Result(op, ok, error, ret, opened, console) ==
    [op |-> op, ok |-> ok, error |-> error, ret |-> ret, opened |-> opened,
     console |-> console]

\* new CoinbaseWalletConnector() in a page without a wallet.
InitConnector ==
    /\ ethereum = NoEthereum
    /\ provider = NoProvider
    /\ pending = NoCall
    /\ updates = <<>>
    /\ result = Result("constructor", TRUE, "", NoProvider, FALSE, <<>>)

Init ==
    /\ InitConnector
    /\ stakingProviderInfo = [a \in Addr |-> StakingProviderInfo]
    /\ stakingProviders = <<>>
    /\ operatorToStakingProvider = [a \in Addr |-> 0]
    /\ coordinator = 0
    /\ initialized = FALSE
    /\ updaters = {}
    /\ last = Outcome("constructor", 0, TRUE, <<>>, <<>>, <<>>, <<>>)
    /\ everBound = {}
    /\ confirmedSince = {}
    /\ replaced = 0

\* A require that fails, or a panic: the whole transaction is undone.
RevertCall(op, sender, args) ==
    /\ UNCHANGED storage
    /\ UNCHANGED <<everBound, confirmedSince>>
    /\ replaced' = 0
    /\ UNCHANGED wallet
    /\ last' = Outcome(op, sender, FALSE, <<>>, <<>>, args, <<>>)

Revert(op, sender) == RevertCall(op, sender, <<>>)

\* ------------------------------------------------------------- initialize

\* TACoChildApplication.initialize(_coordinator).  appIsThis is the answer of
\* the external call Coordinator(_coordinator).application() == address(this).
initialize(sender, _coordinator, appIsThis) ==
    IF initialized \/ coordinator # 0 \/ _coordinator = 0 \/ ~appIsThis
    THEN RevertCall("initialize", sender, <<_coordinator, appIsThis>>)
    ELSE /\ coordinator' = _coordinator
         /\ initialized' = TRUE
         /\ UNCHANGED <<stakingProviderInfo, stakingProviders,
                        operatorToStakingProvider, updaters>>
         /\ UNCHANGED <<everBound, confirmedSince>>
         /\ replaced' = 0
         /\ UNCHANGED wallet
         /\ last' = Outcome("initialize", sender, TRUE, <<>>, <<>>,
                            <<_coordinator, appIsThis>>, <<>>)

\* TestnetTACoChildApplication.initialize(_coordinator, updaters).
initializeTestnet(sender, _coordinator, _updaters) ==
    IF initialized
    THEN RevertCall("initializeTestnet", sender, <<_coordinator, _updaters>>)
    ELSE /\ coordinator' = _coordinator
         /\ initialized' = TRUE
         /\ updaters' = _updaters
         /\ UNCHANGED <<stakingProviderInfo, stakingProviders,
                        operatorToStakingProvider>>
         /\ UNCHANGED <<everBound, confirmedSince>>
         /\ replaced' = 0
         /\ UNCHANGED wallet
         /\ last' = Outcome("initializeTestnet", sender, TRUE, <<>>, <<>>,
                            <<_coordinator, _updaters>>, <<>>)

\* --------------------------------------------------------- updateOperator

\* Faulty variants of _updateOperator, each one slip away from the source:
\* "push" appends the provider on every update, "index" records the 0-based
\* position, "keep" leaves the old operator's reverse entry in place.
FaultyUpdateOperator(stakingProvider, operator, fault) ==
    LET info == stakingProviderInfo[stakingProvider]
        oldOperator == info.operator
    IN  IF stakingProvider = 0 \/ operator = oldOperator
        THEN [info |-> stakingProviderInfo, list |-> stakingProviders,
              rev |-> operatorToStakingProvider, events |-> <<>>]
        ELSE LET first == info.index = 0 \/ fault = "push"
                 list1 == IF first
                          THEN Append(stakingProviders, stakingProvider)
                          ELSE stakingProviders
                 index1 == IF first
                           THEN (IF fault = "index" THEN Len(list1) - 1 ELSE Len(list1))
                           ELSE info.index
                 rev1 == IF fault = "keep"
                         THEN operatorToStakingProvider
                         ELSE [operatorToStakingProvider EXCEPT ![oldOperator] = 0]
                 rev2 == IF operator # 0
                         THEN [rev1 EXCEPT ![operator] = stakingProvider]
                         ELSE rev1
             IN  [info |-> [stakingProviderInfo EXCEPT ![stakingProvider] =
                               [@ EXCEPT !.index = index1,
                                         !.operator = operator,
                                         !.operatorConfirmed = FALSE]],
                  list |-> list1,
                  rev |-> rev2,
                  events |-> <<<<"OperatorUpdated", stakingProvider, operator>>>>]

_updateOperatorPushAlways(stakingProvider, operator) ==
    FaultyUpdateOperator(stakingProvider, operator, "push")

_updateOperatorZeroBasedIndex(stakingProvider, operator) ==
    FaultyUpdateOperator(stakingProvider, operator, "index")

_updateOperatorKeepOldMapping(stakingProvider, operator) ==
    FaultyUpdateOperator(stakingProvider, operator, "keep")

\* Faulty variant of _updateOperator: the provider keeps its confirmation
\* when its operator changes.
_updateOperatorKeepsConfirmation(stakingProvider, operator) ==
    LET info == stakingProviderInfo[stakingProvider]
        oldOperator == info.operator
    IN  IF stakingProvider = 0 \/ operator = oldOperator
        THEN [info |-> stakingProviderInfo, list |-> stakingProviders,
              rev |-> operatorToStakingProvider, events |-> <<>>]
        ELSE LET list1 == IF info.index = 0
                          THEN Append(stakingProviders, stakingProvider)
                          ELSE stakingProviders
                 index1 == IF info.index = 0 THEN Len(list1) ELSE info.index
                 rev1 == [operatorToStakingProvider EXCEPT ![oldOperator] = 0]
                 rev2 == IF operator # 0
                         THEN [rev1 EXCEPT ![operator] = stakingProvider]
                         ELSE rev1
             IN  [info |-> [stakingProviderInfo EXCEPT ![stakingProvider] =
                               [@ EXCEPT !.index = index1,
                                         !.operator = operator]],
                  list |-> list1,
                  rev |-> rev2,
                  events |-> <<<<"OperatorUpdated", stakingProvider, operator>>>>]

\* Faulty variant of _updateOperator: binding a provider to the operator it
\* already has is carried out like any other update.
_updateOperatorNoShortCircuit(stakingProvider, operator) ==
    LET info == stakingProviderInfo[stakingProvider]
        oldOperator == info.operator
    IN  IF stakingProvider = 0
        THEN [info |-> stakingProviderInfo, list |-> stakingProviders,
              rev |-> operatorToStakingProvider, events |-> <<>>]
        ELSE LET list1 == IF info.index = 0
                          THEN Append(stakingProviders, stakingProvider)
                          ELSE stakingProviders
                 index1 == IF info.index = 0 THEN Len(list1) ELSE info.index
                 rev1 == [operatorToStakingProvider EXCEPT ![oldOperator] = 0]
                 rev2 == IF operator # 0
                         THEN [rev1 EXCEPT ![operator] = stakingProvider]
                         ELSE rev1
             IN  [info |-> [stakingProviderInfo EXCEPT ![stakingProvider] =
                               [@ EXCEPT !.index = index1,
                                         !.operator = operator,
                                         !.operatorConfirmed = FALSE]],
                  list |-> list1,
                  rev |-> rev2,
                  events |-> <<<<"OperatorUpdated", stakingProvider, operator>>>>]

\* _updateOperator: the new (stakingProviderInfo, stakingProviders,
\* operatorToStakingProvider) and the events emitted.
_updateOperator(stakingProvider, operator) ==
    LET info == stakingProviderInfo[stakingProvider]
        oldOperator == info.operator
    IN  IF stakingProvider = 0 \/ operator = oldOperator
        THEN [info |-> stakingProviderInfo, list |-> stakingProviders,
              rev |-> operatorToStakingProvider, events |-> <<>>]
        ELSE LET list1 == IF info.index = 0
                          THEN Append(stakingProviders, stakingProvider)
                          ELSE stakingProviders
                 index1 == IF info.index = 0 THEN Len(list1) ELSE info.index
                 rev1 == [operatorToStakingProvider EXCEPT ![oldOperator] = 0]
                 rev2 == IF operator # 0
                         THEN [rev1 EXCEPT ![operator] = stakingProvider]
                         ELSE rev1
             IN  [info |-> [stakingProviderInfo EXCEPT ![stakingProvider] =
                               [@ EXCEPT !.index = index1,
                                         !.operator = operator,
                                         !.operatorConfirmed = FALSE]],
                  list |-> list1,
                  rev |-> rev2,
                  events |-> <<<<"OperatorUpdated", stakingProvider, operator>>>>]

\* The storage and history update shared by updateOperator and
\* forceUpdateOperator once the caller has been admitted.
ApplyUpdateOperator(op, sender, stakingProvider, operator) ==
    LET r == _updateOperator(stakingProvider, operator)
    IN  /\ stakingProviderInfo' = r.info
        /\ stakingProviders' = r.list
        /\ operatorToStakingProvider' = r.rev
        /\ UNCHANGED <<coordinator, initialized, updaters>>
        /\ UNCHANGED wallet
        /\ last' = Outcome(op, sender, TRUE, r.events, <<>>,
                           <<stakingProvider, operator>>, <<>>)
        /\ replaced' = IF r.events # <<>>
                       THEN stakingProviderInfo[stakingProvider].operator
                       ELSE 0
        /\ everBound' = IF stakingProvider # 0 /\ operator # 0
                        THEN everBound \cup {stakingProvider}
                        ELSE everBound
        /\ confirmedSince' =
               IF stakingProvider # 0
                  /\ operator # stakingProviderInfo[stakingProvider].operator
               THEN {}
               ELSE confirmedSince

\* Faulty variant of updateOperator: the onlyRootApplication check is gone.
updateOperatorAnyCaller(sender, stakingProvider, operator) ==
    ApplyUpdateOperator("updateOperator", sender, stakingProvider, operator)

\* updateOperator(stakingProvider, operator) external onlyRootApplication.
updateOperator(sender, stakingProvider, operator) ==
    IF sender # rootApplication
    THEN Revert("updateOperator", sender)
    ELSE ApplyUpdateOperator("updateOperator", sender, stakingProvider, operator)

\* forceUpdateOperator(stakingProvider, operator) external onlyRole(UPDATE_ROLE).
forceUpdateOperator(sender, stakingProvider, operator) ==
    IF sender \notin updaters
    THEN Revert("forceUpdateOperator", sender)
    ELSE ApplyUpdateOperator("forceUpdateOperator", sender, stakingProvider, operator)

\* ---------------------------------------------------- updateAuthorization

\* Faulty variant of _updateAuthorization: it withdraws the confirmation when
\* the authorization falls below the minimum.
_updateAuthorizationDropsConfirmation(stakingProvider, authorized, deauthorizing, endDeauthorization) ==
    LET info == stakingProviderInfo[stakingProvider]
    IN  IF stakingProvider = 0
           \/ (authorized = info.authorized
               /\ deauthorizing = info.deauthorizing
               /\ endDeauthorization = info.endDeauthorization)
        THEN [info |-> stakingProviderInfo, events |-> <<>>]
        ELSE [info |-> [stakingProviderInfo EXCEPT ![stakingProvider] =
                           [@ EXCEPT !.authorized = authorized,
                                     !.deauthorizing = deauthorizing,
                                     !.endDeauthorization = endDeauthorization,
                                     !.operatorConfirmed =
                                         @ /\ authorized >= minimumAuthorization]],
              events |-> <<<<"AuthorizationUpdated", stakingProvider, authorized,
                             deauthorizing, endDeauthorization>>>>]

\* Faulty variant of _updateAuthorization: the zero address is treated as a
\* provider like any other.
_updateAuthorizationZeroProvider(stakingProvider, authorized, deauthorizing, endDeauthorization) ==
    LET info == stakingProviderInfo[stakingProvider]
    IN  IF authorized = info.authorized
           /\ deauthorizing = info.deauthorizing
           /\ endDeauthorization = info.endDeauthorization
        THEN [info |-> stakingProviderInfo, events |-> <<>>]
        ELSE [info |-> [stakingProviderInfo EXCEPT ![stakingProvider] =
                           [@ EXCEPT !.authorized = authorized,
                                     !.deauthorizing = deauthorizing,
                                     !.endDeauthorization = endDeauthorization]],
              events |-> <<<<"AuthorizationUpdated", stakingProvider, authorized,
                             deauthorizing, endDeauthorization>>>>]

\* _updateAuthorization: the new stakingProviderInfo and the events emitted.
_updateAuthorization(stakingProvider, authorized, deauthorizing, endDeauthorization) ==
    LET info == stakingProviderInfo[stakingProvider]
    IN  IF stakingProvider = 0
           \/ (authorized = info.authorized
               /\ deauthorizing = info.deauthorizing
               /\ endDeauthorization = info.endDeauthorization)
        THEN [info |-> stakingProviderInfo, events |-> <<>>]
        ELSE [info |-> [stakingProviderInfo EXCEPT ![stakingProvider] =
                           [@ EXCEPT !.authorized = authorized,
                                     !.deauthorizing = deauthorizing,
                                     !.endDeauthorization = endDeauthorization]],
              events |-> <<<<"AuthorizationUpdated", stakingProvider, authorized,
                             deauthorizing, endDeauthorization>>>>]

ApplyUpdateAuthorization(op, sender, stakingProvider, authorized, deauthorizing, endDeauthorization) ==
    LET r == _updateAuthorization(stakingProvider, authorized, deauthorizing,
                                  endDeauthorization)
    IN  /\ stakingProviderInfo' = r.info
        /\ UNCHANGED <<stakingProviders, operatorToStakingProvider, coordinator,
                       initialized, updaters>>
        /\ UNCHANGED <<everBound, confirmedSince>>
        /\ replaced' = 0
        /\ UNCHANGED wallet
        /\ last' = Outcome(op, sender, TRUE, r.events, <<>>,
                           <<stakingProvider, authorized, deauthorizing,
                             endDeauthorization>>, <<>>)

\* Faulty variant of the two-argument updateAuthorization: a pending
\* deauthorization is carried over instead of being zeroed.
updateAuthorization2KeepsDeauthorization(sender, stakingProvider, authorized) ==
    IF sender # rootApplication
    THEN Revert("updateAuthorization2", sender)
    ELSE ApplyUpdateAuthorization("updateAuthorization2", sender, stakingProvider,
                                  authorized,
                                  stakingProviderInfo[stakingProvider].deauthorizing,
                                  stakingProviderInfo[stakingProvider].endDeauthorization)

\* updateAuthorization(stakingProvider, authorized), the two-argument form.
updateAuthorization2(sender, stakingProvider, authorized) ==
    IF sender # rootApplication
    THEN Revert("updateAuthorization2", sender)
    ELSE ApplyUpdateAuthorization("updateAuthorization2", sender, stakingProvider,
                                  authorized, 0, 0)

\* updateAuthorization(stakingProvider, authorized, deauthorizing, endDeauthorization).
updateAuthorization(sender, stakingProvider, authorized, deauthorizing, endDeauthorization) ==
    IF sender # rootApplication
    THEN Revert("updateAuthorization", sender)
    ELSE ApplyUpdateAuthorization("updateAuthorization", sender, stakingProvider,
                                  authorized, deauthorizing, endDeauthorization)

\* forceUpdateAuthorization(...) external onlyRole(UPDATE_ROLE).
forceUpdateAuthorization(sender, stakingProvider, authorized, deauthorizing, endDeauthorization) ==
    IF sender \notin updaters
    THEN Revert("forceUpdateAuthorization", sender)
    ELSE ApplyUpdateAuthorization("forceUpdateAuthorization", sender,
                                  stakingProvider, authorized, deauthorizing,
                                  endDeauthorization)

\* ------------------------------------------------- confirmOperatorAddress

\* Faulty variants of confirmOperatorAddress: "caller" drops the coordinator
\* check, "twice" drops the already-confirmed check.
FaultyConfirmOperatorAddress(sender, _operator, rootOk, fault) ==
    LET stakingProvider == operatorToStakingProvider[_operator]
        info == stakingProviderInfo[stakingProvider]
    IN  IF (fault # "caller" /\ sender # coordinator)
           \/ ~(info.authorized >= minimumAuthorization)
           \/ (fault # "twice" /\ info.operatorConfirmed)
           \/ ~rootOk
        THEN RevertCall("confirmOperatorAddress", sender, <<_operator>>)
        ELSE /\ stakingProviderInfo' =
                    [stakingProviderInfo EXCEPT
                        ![stakingProvider].operatorConfirmed = TRUE]
             /\ UNCHANGED <<stakingProviders, operatorToStakingProvider,
                            coordinator, initialized, updaters>>
             /\ everBound' = everBound
             /\ replaced' = 0
             /\ confirmedSince' = confirmedSince \cup {_operator}
             /\ UNCHANGED wallet
             /\ last' = Outcome("confirmOperatorAddress", sender, TRUE,
                                <<<<"OperatorConfirmed", stakingProvider, _operator>>>>,
                                <<<<"confirmOperatorAddress", _operator>>>>,
                                <<_operator>>, <<>>)

confirmOperatorAddressAnyCaller(sender, _operator, rootOk) ==
    FaultyConfirmOperatorAddress(sender, _operator, rootOk, "caller")

confirmOperatorAddressTwice(sender, _operator, rootOk) ==
    FaultyConfirmOperatorAddress(sender, _operator, rootOk, "twice")

\* Faulty variant of confirmOperatorAddress: the minimum-authorization check
\* is gone.
confirmOperatorAddressNoMinimum(sender, _operator, rootOk) ==
    LET stakingProvider == operatorToStakingProvider[_operator]
        info == stakingProviderInfo[stakingProvider]
    IN  IF sender # coordinator \/ info.operatorConfirmed \/ ~rootOk
        THEN RevertCall("confirmOperatorAddress", sender, <<_operator>>)
        ELSE /\ stakingProviderInfo' =
                    [stakingProviderInfo EXCEPT
                        ![stakingProvider].operatorConfirmed = TRUE]
             /\ UNCHANGED <<stakingProviders, operatorToStakingProvider,
                            coordinator, initialized, updaters>>
             /\ everBound' = everBound
             /\ replaced' = 0
             /\ confirmedSince' = confirmedSince \cup {_operator}
             /\ UNCHANGED wallet
             /\ last' = Outcome("confirmOperatorAddress", sender, TRUE,
                                <<<<"OperatorConfirmed", stakingProvider, _operator>>>>,
                                <<<<"confirmOperatorAddress", _operator>>>>,
                                <<_operator>>, <<>>)

\* Faulty variant of confirmOperatorAddress: a failure of the call to the
\* root application is swallowed and the confirmation stands.
confirmOperatorAddressIgnoresRootFailure(sender, _operator, rootOk) ==
    LET stakingProvider == operatorToStakingProvider[_operator]
        info == stakingProviderInfo[stakingProvider]
    IN  IF sender # coordinator
           \/ ~(info.authorized >= minimumAuthorization)
           \/ info.operatorConfirmed
        THEN RevertCall("confirmOperatorAddress", sender, <<_operator>>)
        ELSE /\ stakingProviderInfo' =
                    [stakingProviderInfo EXCEPT
                        ![stakingProvider].operatorConfirmed = TRUE]
             /\ UNCHANGED <<stakingProviders, operatorToStakingProvider,
                            coordinator, initialized, updaters>>
             /\ everBound' = everBound
             /\ replaced' = 0
             /\ confirmedSince' = confirmedSince \cup {_operator}
             /\ UNCHANGED wallet
             /\ last' = Outcome("confirmOperatorAddress", sender, TRUE,
                                <<<<"OperatorConfirmed", stakingProvider, _operator>>>>,
                                <<<<"confirmOperatorAddress", _operator>>>>,
                                <<_operator>>, <<>>)

\* confirmOperatorAddress(_operator).  rootOk is whether the external call
\* rootApplication.confirmOperatorAddress(_operator) returns; when it does
\* not, the failure propagates and the transaction is undone.
confirmOperatorAddress(sender, _operator, rootOk) ==
    LET stakingProvider == operatorToStakingProvider[_operator]
        info == stakingProviderInfo[stakingProvider]
    IN  IF sender # coordinator
           \/ ~(info.authorized >= minimumAuthorization)
           \/ info.operatorConfirmed
           \/ ~rootOk
        THEN RevertCall("confirmOperatorAddress", sender, <<_operator>>)
        ELSE /\ stakingProviderInfo' =
                    [stakingProviderInfo EXCEPT
                        ![stakingProvider].operatorConfirmed = TRUE]
             /\ UNCHANGED <<stakingProviders, operatorToStakingProvider,
                            coordinator, initialized, updaters>>
             /\ everBound' = everBound
             /\ replaced' = 0
             /\ confirmedSince' = confirmedSince \cup {_operator}
             /\ UNCHANGED wallet
             /\ last' = Outcome("confirmOperatorAddress", sender, TRUE,
                                <<<<"OperatorConfirmed", stakingProvider, _operator>>>>,
                                <<<<"confirmOperatorAddress", _operator>>>>,
                                <<_operator>>, <<>>)

\* ------------------------------------------------------------------ views

\* What a reverted view returns to the model: no value.
Reverted == [ok |-> FALSE, val |-> 0]

\* uint96 a - b and a + b under Solidity 0.8 checked arithmetic: a panic
\* (ok = FALSE) when the result leaves 0 .. type(uint96).max.
Sub96(a, b) == IF b > a THEN Reverted ELSE [ok |-> TRUE, val |-> a - b]
Add96(a, b) == IF a + b > MaxUint96 THEN Reverted ELSE [ok |-> TRUE, val |-> a + b]

\* Faulty variant of eligibleStake: it returns the authorized amount whatever
\* deauthorization is pending.
eligibleStakeIgnoresDeauthorization(_stakingProvider, _endDate) ==
    [ok |-> TRUE, val |-> stakingProviderInfo[_stakingProvider].authorized]

\* eligibleStake(_stakingProvider, _endDate).
eligibleStake(_stakingProvider, _endDate) ==
    LET info == stakingProviderInfo[_stakingProvider]
    IN  IF 0 < info.endDeauthorization /\ info.endDeauthorization < _endDate
        THEN Sub96(info.authorized, info.deauthorizing)
        ELSE [ok |-> TRUE, val |-> info.authorized]

\* bytes32(bytes20(stakingProvider)) | bytes32(uint256(eligibleAmount)): the
\* address in the high 20 bytes, the amount in the low 12 bytes.
Pack(stakingProvider, eligibleAmount) ==
    stakingProvider * (MaxUint96 + 1) + eligibleAmount

\* What getActiveStakingProviders returns when it reverts.
RevertedScan == [ok |-> FALSE, allAuthorizedTokens |-> 0, activeStakingProviders |-> <<>>]

\* The for loop of getActiveStakingProviders from (0-based) position i, with
\* the running total and the entries written so far; the final mstore cuts
\* the array to the entries written.
RECURSIVE ScanProviders(_, _, _, _, _)
ScanProviders(i, endIndex, endDate, allAuthorizedTokens, active) ==
    IF ~(i < endIndex)
    THEN [ok |-> TRUE, allAuthorizedTokens |-> allAuthorizedTokens,
          activeStakingProviders |-> active]
    ELSE LET stakingProvider == stakingProviders[i + 1]
             info == stakingProviderInfo[stakingProvider]
             eligibleAmount == eligibleStake(stakingProvider, endDate)
         IN  IF ~eligibleAmount.ok
             THEN RevertedScan
             ELSE IF eligibleAmount.val < minimumAuthorization
                     \/ ~info.operatorConfirmed
             THEN ScanProviders(i + 1, endIndex, endDate, allAuthorizedTokens, active)
             ELSE LET total == Add96(allAuthorizedTokens, eligibleAmount.val)
                  IN  IF ~total.ok
                      THEN RevertedScan
                      ELSE ScanProviders(i + 1, endIndex, endDate, total.val,
                               Append(active, Pack(stakingProvider, eligibleAmount.val)))

\* getActiveStakingProviders(_startIndex, _maxStakingProviders, _cohortDuration)
\* in a block whose timestamp is now.
getActiveStakingProviders(_startIndex, _maxStakingProviders, _cohortDuration, now) ==
    LET length == Len(stakingProviders)
    IN  IF ~(_startIndex < length)
        THEN RevertedScan
        ELSE IF _maxStakingProviders # 0
                /\ _startIndex + _maxStakingProviders > MaxUint256
        THEN RevertedScan
        ELSE LET endIndex == IF _maxStakingProviders # 0
                                /\ _startIndex + _maxStakingProviders < length
                             THEN _startIndex + _maxStakingProviders
                             ELSE length
                 endDate == IF _cohortDuration = 0
                            THEN MaxUint256
                            ELSE now + _cohortDuration
             IN  ScanProviders(_startIndex, endIndex, endDate, 0, <<>>)

\* A view is called: nothing is stored, the caller sees the result.
eligibleStakeCall(sender, _stakingProvider, _endDate) ==
    LET r == eligibleStake(_stakingProvider, _endDate)
    IN  /\ UNCHANGED storage
        /\ UNCHANGED <<everBound, confirmedSince>>
        /\ replaced' = 0
        /\ UNCHANGED wallet
        /\ last' = Outcome("eligibleStake", sender, r.ok, <<>>, <<>>,
                           <<_stakingProvider, _endDate>>, r.val)

getActiveStakingProvidersCall(sender, _startIndex, _maxStakingProviders, _cohortDuration, now) ==
    LET r == getActiveStakingProviders(_startIndex, _maxStakingProviders,
                                       _cohortDuration, now)
    IN  /\ UNCHANGED storage
        /\ UNCHANGED <<everBound, confirmedSince>>
        /\ replaced' = 0
        /\ UNCHANGED wallet
        /\ last' = Outcome("getActiveStakingProviders", sender, r.ok, <<>>, <<>>,
                           <<_startIndex, _maxStakingProviders, _cohortDuration, now>>,
                           <<r.allAuthorizedTokens, r.activeStakingProviders>>)

\* getActiveStakingProviders(_startIndex, _maxStakingProviders), two arguments.
getActiveStakingProviders2Call(sender, _startIndex, _maxStakingProviders, now) ==
    LET r == getActiveStakingProviders(_startIndex, _maxStakingProviders, 0, now)
    IN  /\ UNCHANGED storage
        /\ UNCHANGED <<everBound, confirmedSince>>
        /\ replaced' = 0
        /\ UNCHANGED wallet
        /\ last' = Outcome("getActiveStakingProviders2", sender, r.ok, <<>>, <<>>,
                           <<_startIndex, _maxStakingProviders>>,
                           <<r.allAuthorizedTokens, r.activeStakingProviders>>)

\* ------------------------------------------------------- wallet connector

\* The text of the Error thrown by activate().
CouldNotActivate == "Could not activate connector"
\* What console.log prints when no Coinbase wallet is found.
NotInstalled == [hasMessage |-> TRUE, message |-> "Coinbase wallet is not installed"]
\* The TypeError of this.provider.send(...) when this.provider is undefined.
SendOfUndefined == [hasMessage |-> TRUE, message |-> "Cannot read properties of undefined"]

\* parseInt's result when the string holds no number.
NaN == -1

\* The value of a digit character, 16 for any other character.
DigitValue(c) ==
    CASE c = "0" -> 0 [] c = "1" -> 1 [] c = "2" -> 2 [] c = "3" -> 3
      [] c = "4" -> 4 [] c = "5" -> 5 [] c = "6" -> 6 [] c = "7" -> 7
      [] c = "8" -> 8 [] c = "9" -> 9 [] c \in {"a", "A"} -> 10
      [] c \in {"b", "B"} -> 11 [] c \in {"c", "C"} -> 12
      [] c \in {"d", "D"} -> 13 [] c \in {"e", "E"} -> 14
      [] c \in {"f", "F"} -> 15 [] OTHER -> 16

\* The digits of str from position i on in the given radix, after acc.
RECURSIVE ParseDigits(_, _, _, _)
ParseDigits(str, i, radix, acc) ==
    IF i > Len(str) \/ DigitValue(SubSeq(str, i, i)) >= radix
    THEN acc
    ELSE ParseDigits(str, i + 1, radix, acc * radix + DigitValue(SubSeq(str, i, i)))

\* parseInt(str) with no radix: base 16 after a "0x" prefix, base 10
\* otherwise; the leading digits count, NaN when there is none.
parseInt(str) ==
    LET hex == Len(str) >= 2 /\ SubSeq(str, 1, 2) \in {"0x", "0X"}
        radix == IF hex THEN 16 ELSE 10
        first == IF hex THEN 3 ELSE 1
    IN  IF first > Len(str) \/ DigitValue(SubSeq(str, first, first)) >= radix
        THEN NaN
        ELSE ParseDigits(str, first, radix, 0)

\* injectedProviders.find(provider => provider.isWalletLink ?? false): the
\* position of the first such provider, 0 when there is none.
FindWalletLink(injectedProviders) ==
    LET found == {i \in 1 .. Len(injectedProviders) : injectedProviders[i].isWalletLink}
    IN  IF found = {} THEN 0
        ELSE CHOOSE i \in found : \A j \in found : i <= j

\* The call op ends: the promise resolves or rejects.
Finish(op, ok, error, ret, opened, console) ==
    /\ pending' = NoCall
    /\ result' = Result(op, ok, error, ret, opened, console)

\* Faulty variant of Caught: connectEagerly rethrows like activate.
CaughtAndRethrown(op, e) ==
    /\ UNCHANGED <<provider, updates>>
    /\ Finish(op, FALSE,
              CouldNotActivate \o ": " \o (IF e.hasMessage THEN e.message ELSE ""),
              NoProvider, FALSE, <<e>>)

\* The catch blocks: connectEagerly prints the error and returns, activate
\* prints it and throws 'Could not activate connector: ' + (e.message ?? '').
Caught(op, e) ==
    /\ UNCHANGED <<provider, updates>>
    /\ IF op = "connectEagerly"
       THEN Finish(op, TRUE, "", NoProvider, FALSE, <<e>>)
       ELSE Finish(op, FALSE,
                   CouldNotActivate \o ": " \o (IF e.hasMessage THEN e.message ELSE ""),
                   NoProvider, FALSE, <<e>>)

\* What follows `await this.init()` in the call op, this.provider being p:
\* init() is over; connectEagerly returns and activate throws when there is
\* no provider, otherwise both send eth_chainId and wait for the reply.
AfterInit(op, p, opened, console) ==
    /\ provider' = p
    /\ updates' = updates
    /\ IF op = "init"
       THEN Finish(op, TRUE, "", NoProvider, opened, console)
       ELSE IF ~p.set
       THEN IF op = "connectEagerly"
            THEN Finish(op, TRUE, "", NoProvider, opened, console)
            ELSE Finish(op, FALSE, CouldNotActivate, NoProvider, opened, console)
       ELSE /\ pending' = [op |-> op, pc |-> "chainId", chainId |-> ""]
            /\ result' = result

\* getCoinbaseProvider() has returned got (NoProvider for undefined) to the
\* call op: to the page itself, or to init(), which keeps a provider it got.
AfterGetCoinbaseProvider(op, got, opened, console) ==
    IF op = "getCoinbaseProvider"
    THEN /\ UNCHANGED <<provider, updates>>
         /\ Finish(op, TRUE, "", got, opened, console)
    ELSE AfterInit(op, IF got.set THEN got ELSE provider, opened, console)

\* The page calls getCoinbaseProvider(), init(), connectEagerly() or
\* activate(); the step runs to the first wait for the outside world.
Begin(op) ==
    /\ pending.op = "none"
    /\ Len(updates) < MaxUpdates
    /\ UNCHANGED ethereum
    /\ UNCHANGED registry
    /\ IF op # "getCoinbaseProvider" /\ provider.set
       THEN AfterInit(op, provider, FALSE, <<>>)
       ELSE IF ~ethereum.present
       THEN AfterGetCoinbaseProvider(op, NoProvider, TRUE, <<>>)
       ELSE IF FindWalletLink(ethereum.providers) # 0
       THEN AfterGetCoinbaseProvider(
                op, Web3Provider(FindWalletLink(ethereum.providers)), FALSE, <<>>)
       ELSE /\ pending' = [op |-> op, pc |-> "detect", chainId |-> ""]
            /\ UNCHANGED <<provider, updates, result>>

\* detectProvider() resolves, to window.ethereum as it is now or to null, and
\* getCoinbaseProvider() checks its isWalletLink flag.
DetectProviderReturns ==
    /\ pending.pc = "detect"
    /\ UNCHANGED ethereum
    /\ UNCHANGED registry
    /\ IF ~ethereum.present \/ ~ethereum.isWalletLink
       THEN AfterGetCoinbaseProvider(pending.op, NoProvider, FALSE, <<NotInstalled>>)
       ELSE AfterGetCoinbaseProvider(pending.op, Web3Provider(0), FALSE, <<>>)

\* The reply to eth_chainId arrives: an error is caught; otherwise the call
\* sends eth_accounts (connectEagerly) or eth_requestAccounts (activate)
\* through this.provider, which throws if deactivate() has unset it.
ChainIdReturns(reply) ==
    /\ pending.pc = "chainId"
    /\ UNCHANGED ethereum
    /\ UNCHANGED registry
    /\ IF ~reply.ok
       THEN Caught(pending.op, reply.error)
       ELSE IF ~provider.set
       THEN Caught(pending.op, SendOfUndefined)
       ELSE /\ pending' = [pending EXCEPT !.pc = "accounts", !.chainId = reply.value]
            /\ UNCHANGED <<provider, updates, result>>

\* The reply to eth_accounts / eth_requestAccounts arrives: an error is
\* caught; otherwise update.emit({ chainId: parseInt(chainId), accounts }).
AccountsReturns(reply) ==
    /\ pending.pc = "accounts"
    /\ UNCHANGED ethereum
    /\ UNCHANGED registry
    /\ IF ~reply.ok
       THEN Caught(pending.op, reply.error)
       ELSE /\ updates' = Append(updates, [chainId |-> parseInt(pending.chainId),
                                           accounts |-> reply.value])
            /\ provider' = provider
            /\ Finish(pending.op, TRUE, "", NoProvider, FALSE, <<>>)

\* deactivate(): this.provider = undefined, whatever call is in flight.
deactivate ==
    /\ provider' = NoProvider
    /\ UNCHANGED <<ethereum, pending, updates, result>>
    /\ UNCHANGED registry

\* The browser (an extension being installed, enabled or removed) changes
\* window.ethereum.
Inject(e) ==
    /\ ethereum' = e
    /\ e # ethereum
    /\ UNCHANGED <<provider, pending, updates, result>>
    /\ UNCHANGED registry

\* ------------------------------------------------------------------- spec

\* The address that is granted UPDATE_ROLE when the testnet initializer names
\* an updater, and the coordinator contract named in initializations.
Updater == NumAddr
CoordinatorAddress == rootApplication + 1
CoordinatorInputs == {0, CoordinatorAddress}

\* (authorized, deauthorizing, endDeauthorization) pushed in Spec: nothing
\* and the minimum (the operator bindings and the confirmation read only
\* authorized >= minimumAuthorization).
AuthInputs == {<<0, 0, 0>>, <<minimumAuthorization, 0, 0>>}

\* A call by each address the access check turns away (the arguments of a
\* rejected call do not matter: one representative).
Intruders(admitted) == Senders \ admitted

\* Anyone may send the initializers; the deployer does.
Deployer == NumAddr

Initialization ==
    \/ \E c \in CoordinatorInputs, b \in BOOLEAN : initialize(Deployer, c, b)
    \/ \E c \in CoordinatorInputs, u \in {{}, {Updater}} :
           initializeTestnet(Deployer, c, u)

RootUpdatesOperator ==
    \E p \in Providers, o \in Addr : updateOperator(rootApplication, p, o)

IntruderUpdatesOperator ==
    \E s \in Intruders({rootApplication}) : updateOperator(s, 1, NumAddr)

UpdaterForcesOperator ==
    \E p \in Providers, o \in Addr : forceUpdateOperator(Updater, p, o)

IntruderForcesOperator ==
    \E s \in Intruders({Updater}) : forceUpdateOperator(s, 1, NumAddr)

IntruderUpdatesAuthorization ==
    \E s \in Intruders({rootApplication}) :
        \/ updateAuthorization2(s, 1, minimumAuthorization)
        \/ updateAuthorization(s, 1, minimumAuthorization, 0, 0)

IntruderForcesAuthorization ==
    \E s \in Intruders({Updater}) :
        forceUpdateAuthorization(s, 1, minimumAuthorization, 0, 0)

CoordinatorConfirms ==
    /\ coordinator # 0
    /\ \E o \in Addr, b \in BOOLEAN : confirmOperatorAddress(coordinator, o, b)

\* Another address tries to confirm the operator of a provider.
IntruderConfirms ==
    \E s \in Intruders({coordinator}), p \in Providers \ {0} :
        confirmOperatorAddress(s, stakingProviderInfo[p].operator, TRUE)

Next ==
    \/ Initialization
    \/ RootUpdatesOperator
    \/ IntruderUpdatesOperator
    \/ UpdaterForcesOperator
    \/ IntruderForcesOperator
    \/ \E p \in Providers, a \in {0, minimumAuthorization} :
           updateAuthorization2(rootApplication, p, a)
    \/ \E p \in Providers, t \in AuthInputs :
           updateAuthorization(rootApplication, p, t[1], t[2], t[3])
    \/ \E p \in Providers, t \in AuthInputs :
           forceUpdateAuthorization(Updater, p, t[1], t[2], t[3])
    \/ IntruderUpdatesAuthorization
    \/ IntruderForcesAuthorization
    \/ CoordinatorConfirms
    \/ IntruderConfirms

Spec == Init /\ [][Next]_vars

\* SpecView: the same registry driven with every authorization amount and
\* queried through its views; each provider p is given the operator p + 1 so
\* that the amounts, not the operator bindings, make up the state space.
ViewProviders == 1 .. MaxProvider
ViewOperator(p) == p + 1
\* (deauthorizing, endDeauthorization) pushed in SpecView: none, an amount
\* with no end date, and an amount ending at MaxTime.
DeauthInputs == {<<0, 0>>, <<1, 0>>, <<1, MaxTime>>}
\* (_startIndex, _maxStakingProviders) queried in SpecView: everything, the
\* first page of one, and a count that overflows _startIndex + count.
PageInputs == {<<0, 0>>, <<0, 1>>, <<1, MaxUint256>>}

NextView ==
    \/ initialize(Deployer, CoordinatorAddress, TRUE)
    \/ \E p \in ViewProviders : \E o \in {0, ViewOperator(p)} :
           updateOperator(rootApplication, p, o)
    \/ \E p \in ViewProviders, a \in Amounts, t \in DeauthInputs :
           updateAuthorization(rootApplication, p, a, t[1], t[2])
    \/ updateAuthorization(rootApplication, 0, minimumAuthorization, 0, 0)
    \/ \E p \in Providers, a \in {0, minimumAuthorization} :
           updateAuthorization2(rootApplication, p, a)
    \/ /\ coordinator # 0
       /\ \E p \in ViewProviders :
              confirmOperatorAddress(coordinator, ViewOperator(p), TRUE)
    \/ \E p \in ViewProviders, t \in {0, MaxTime + 1} :
           eligibleStakeCall(rootApplication, p, t)
    \/ \E t \in PageInputs, d \in {0, MaxDuration} :
           getActiveStakingProvidersCall(rootApplication, t[1], t[2], d, 0)
    \/ getActiveStakingProviders2Call(rootApplication, 0, 0, 0)

SpecView == Init /\ [][NextView]_vars

\* SpecWallet: the connector in a page whose window.ethereum is absent, is
\* a wallet of another make, is the Coinbase wallet, or stands for several
\* wallets with the Coinbase wallet second; the RPC replies are two chain
\* ids, an empty and a one-account list, and rejections with and without a
\* message.
EthereumInputs ==
    {NoEthereum,
     [present |-> TRUE, isWalletLink |-> FALSE, providers |-> <<>>],
     [present |-> TRUE, isWalletLink |-> TRUE, providers |-> <<>>],
     [present |-> TRUE, isWalletLink |-> FALSE,
      providers |-> <<[isWalletLink |-> FALSE], [isWalletLink |-> TRUE]>>]}
ConnectorCalls == {"getCoinbaseProvider", "init", "connectEagerly", "activate"}
RpcErrors ==
    {[hasMessage |-> TRUE, message |-> "User denied account authorization"],
     [hasMessage |-> FALSE, message |-> ""]}
Replied(value) == [ok |-> TRUE, value |-> value, error |-> [hasMessage |-> FALSE, message |-> ""]]
ChainIdRejected(e) == [ok |-> FALSE, value |-> "", error |-> e]
AccountsRejected(e) == [ok |-> FALSE, value |-> <<>>, error |-> e]
ChainIdInputs == {"0x1", "0x89"}
AccountsInputs == {<<>>, <<"0xAb5801a7D398351b8bE11C439e05C5B3259aeC9B">>}
ChainIdReplies ==
    {Replied(c) : c \in ChainIdInputs} \cup {ChainIdRejected(e) : e \in RpcErrors}
AccountsReplies ==
    {Replied(a) : a \in AccountsInputs} \cup {AccountsRejected(e) : e \in RpcErrors}

NextWallet ==
    \/ \E op \in ConnectorCalls : Begin(op)
    \/ DetectProviderReturns
    \/ \E reply \in ChainIdReplies : ChainIdReturns(reply)
    \/ \E reply \in AccountsReplies : AccountsReturns(reply)
    \/ deactivate
    \/ \E e \in EthereumInputs : Inject(e)

SpecWallet == Init /\ [][NextWallet]_vars

\* ----------------------------------------------------------------- claims

Listed(p) == \E i \in 1 .. Len(stakingProviders) : stakingProviders[i] = p
OperatorOf(p) == stakingProviderInfo[p].operator
Confirmed(p) == stakingProviderInfo[p].operatorConfirmed
OperatorUpdatedBy(op) ==
    /\ last.op = op
    /\ last.events # <<>>

\* C1: whatever updateOperator and forceUpdateOperator calls were made, every
\* address occurs at most once in stakingProviders.
C1_NoDuplicateProviders ==
    \A i \in 1 .. Len(stakingProviders) : \A j \in 1 .. Len(stakingProviders) :
        i # j => stakingProviders[i] # stakingProviders[j]

\* C1 witness: a provider that is already listed, and not last, has just had
\* its operator changed again through forceUpdateOperator, after one through
\* updateOperator listed another provider.
C1_Witness ==
    /\ OperatorUpdatedBy("forceUpdateOperator")
    /\ Len(stakingProviders) = 2
    /\ last.events[1][2] = stakingProviders[1]

\* C2: a provider never given an operator is not listed and has index 0; any
\* other provider has index > 0 and stakingProviders[index - 1] (0-based) is
\* that provider.  The list is append-only, and no updateAuthorization form
\* changes it.
C2_IndexState ==
    \A p \in Addr :
        IF p \notin everBound
        THEN ~Listed(p) /\ stakingProviderInfo[p].index = 0
        ELSE /\ stakingProviderInfo[p].index > 0
             /\ stakingProviderInfo[p].index <= Len(stakingProviders)
             /\ stakingProviders[stakingProviderInfo[p].index] = p

C2_AppendOnlyStep ==
    /\ Len(stakingProviders') >= Len(stakingProviders)
    /\ SubSeq(stakingProviders', 1, Len(stakingProviders)) = stakingProviders
    /\ last'.op \in {"updateAuthorization", "updateAuthorization2",
                     "forceUpdateAuthorization"}
           => stakingProviders' = stakingProviders

C2_IndexMatchesAppendOnlyList ==
    [](C2_IndexState) /\ [][C2_AppendOnlyStep]_vars

\* C2 witness: a listed provider has since been unbound again (it stays
\* listed at its index), and the authorization of a provider that was never
\* bound has been set (it stays unlisted).
C2_Witness ==
    /\ Len(stakingProviders) = 1
    /\ OperatorOf(stakingProviders[1]) = 0
    /\ stakingProviderInfo[stakingProviders[1]].index = 1
    /\ \E p \in Addr \ {0} : p \notin everBound /\ stakingProviderInfo[p].authorized > 0

\* C3: for every non-zero operator o there are no two distinct providers
\* whose stakingProviderInfo names o as their operator.
C3_OneProviderPerOperator ==
    \A o \in Addr \ {0} : \A p1 \in Addr : \A p2 \in Addr :
        (OperatorOf(p1) = o /\ OperatorOf(p2) = o) => p1 = p2

\* C4: for every provider p there is at most one operator o with
\* operatorToStakingProvider[o] = p.
C4_OneReverseEntryPerProvider ==
    \A p \in Addr \ {0} :
        Cardinality({o \in Addr : operatorToStakingProvider[o] = p}) <= 1

\* C4 witness: a provider that was listed before another one has just been
\* given a new operator, and its new reverse entry is in place.
C4_Witness ==
    /\ OperatorUpdatedBy("updateOperator")
    /\ Len(stakingProviders) = 2
    /\ last.events[1][2] = stakingProviders[1]
    /\ last.events[1][3] # 0
    /\ operatorToStakingProvider[last.events[1][3]] = last.events[1][2]

\* C6 as stated: once operatorConfirmed is true for a provider it is true in
\* every later state.
C6_ConfirmedNeverReverts ==
    [][\A p \in Addr : Confirmed(p) => Confirmed(p)']_vars

\* C6 as amended: operatorConfirmed stays true through every operation except
\* an updateOperator or forceUpdateOperator that changes that provider's
\* operator, which resets it to false.
C6_ConfirmedRevertsOnlyOnRebind ==
    [][\A p \in Addr :
          (Confirmed(p) /\ ~Confirmed(p)') =>
              /\ OperatorOf(p)' # OperatorOf(p)
              /\ last'.op \in {"updateOperator", "forceUpdateOperator"}
              /\ last'.events = <<<<"OperatorUpdated", p, OperatorOf(p)'>>>>]_vars

\* C6 witness: a provider is still confirmed after its authorization has been
\* taken below the minimum (which confirmation requires).
C6_Witness ==
    \E p \in Addr :
        /\ Confirmed(p)
        /\ stakingProviderInfo[p].authorized < minimumAuthorization
        /\ last.events # <<>>
        /\ last.events[1][1] = "AuthorizationUpdated"

\* C7: a provider's operatorConfirmed goes from false to true only in a
\* successful confirmOperatorAddress(o) sent by the coordinator, where o is
\* non-zero and is that provider's operator at that moment.
C7_OnlyCoordinatorConfirmsBoundOperator ==
    [][\A p \in Addr :
          (~Confirmed(p) /\ Confirmed(p)') =>
              /\ last'.op = "confirmOperatorAddress"
              /\ last'.ok
              /\ last'.sender = coordinator
              /\ OperatorOf(p) # 0
              /\ last'.args = <<OperatorOf(p)>>
              /\ last'.events = <<<<"OperatorConfirmed", p, OperatorOf(p)>>>>]_vars

\* C7 witness: the coordinator has just confirmed a provider's operator.
C7_Witness ==
    /\ last.op = "confirmOperatorAddress"
    /\ last.ok
    /\ \E p \in Addr \ {0} : Confirmed(p) /\ last.args = <<OperatorOf(p)>>

\* C8: after confirmOperatorAddress(o) succeeded and while no operator update
\* has taken effect since, every confirmOperatorAddress(o) fails and leaves
\* the registry unchanged, whatever updateAuthorization calls came between.
C8_SecondConfirmationFails ==
    [][(last'.op = "confirmOperatorAddress" /\ last'.args[1] \in confirmedSince) =>
           (~last'.ok /\ UNCHANGED storage /\ last'.events = <<>>
            /\ last'.rootCalls = <<>>)]_vars

\* C8 witness: the coordinator's second confirmation of an operator has just
\* been turned away although its provider holds the minimum authorization.
C8_Witness ==
    /\ last.op = "confirmOperatorAddress"
    /\ ~last.ok
    /\ last.sender = coordinator
    /\ last.args[1] \in confirmedSince
    /\ stakingProviderInfo[operatorToStakingProvider[last.args[1]]].authorized
           >= minimumAuthorization

\* The claims about the views are stated with these, which follow the wording
\* of the claims and not the code: the stake of p that counts up to t (t = -1
\* for an unbounded horizon) as an integer, the entries of a result, sums.
ClaimedEligible(p, t) ==
    LET info == stakingProviderInfo[p]
    IN  IF info.endDeauthorization = 0
           \/ (t # -1 /\ t <= info.endDeauthorization)
        THEN info.authorized
        ELSE info.authorized - info.deauthorizing

EntryProvider(word) == word \div (MaxUint96 + 1)
EntryAmount(word) == word % (MaxUint96 + 1)
Entries(active) == [i \in 1 .. Len(active) |-> <<EntryProvider(active[i]), EntryAmount(active[i])>>]

RECURSIVE SumOf(_, _)
SumOf(S, t) ==
    IF S = {} THEN 0
    ELSE LET p == CHOOSE q \in S : TRUE
         IN  ClaimedEligible(p, t) + SumOf(S \ {p}, t)

RECURSIVE SumAuthorized(_)
SumAuthorized(S) ==
    IF S = {} THEN 0
    ELSE LET p == CHOOSE q \in S : TRUE
         IN  stakingProviderInfo[p].authorized + SumAuthorized(S \ {p})

ListedSet == {stakingProviders[i] : i \in 1 .. Len(stakingProviders)}

\* C5: eligibleStake(p, t) returns authorized when endDeauthorization = 0 or
\* t <= endDeauthorization, and authorized - deauthorizing otherwise, for
\* every provider and end date.
C5_EligibleStakeFormula ==
    \A p \in Addr : \A t \in 0 .. MaxUint256 :
        eligibleStake(p, t) = [ok |-> TRUE, val |-> ClaimedEligible(p, t)]

C10_PageOfActiveProviders ==
    \A start \in 0 .. MaxProvider + 1 : \A count \in 0 .. MaxUint256 :
    \A duration \in 0 .. MaxDuration : \A now \in Times :
        LET r == getActiveStakingProviders(start, count, duration, now)
            length == Len(stakingProviders)
            end == IF count = 0 \/ start + count >= length THEN length ELSE start + count
            horizon == IF duration = 0 THEN -1 ELSE now + duration
            Active(p) == Confirmed(p) /\ ClaimedEligible(p, horizon) >= minimumAuthorization
            page == SelectSeq(SubSeq(stakingProviders, start + 1, end), Active)
        IN  IF start >= length
            THEN ~r.ok
            ELSE /\ r.ok
                 /\ Entries(r.activeStakingProviders)
                       = [i \in 1 .. Len(page) |-> <<page[i], ClaimedEligible(page[i], horizon)>>]
                 /\ r.allAuthorizedTokens
                       = SumOf({page[i] : i \in 1 .. Len(page)}, horizon)

\* C11: when provider A is bound to an operator O1 and the root application
\* calls updateOperator(A, O2) with O2 # O1, then afterwards A's operator is
\* O2, A is not confirmed, operatorToStakingProvider[O1] is zero, and
\* operatorToStakingProvider[O2] is A when O2 is non-zero.
C11_RebindMovesOperator ==
    [][(last'.op = "updateOperator" /\ last'.sender = rootApplication) =>
          LET A == last'.args[1]
              O2 == last'.args[2]
          IN  (A # 0 /\ OperatorOf(A) # 0 /\ O2 # OperatorOf(A)) =>
                  /\ stakingProviderInfo'[A].operator = O2
                  /\ ~stakingProviderInfo'[A].operatorConfirmed
                  /\ operatorToStakingProvider'[OperatorOf(A)] = 0
                  /\ O2 # 0 => operatorToStakingProvider'[O2] = A]_vars

\* C11 witness: the root application has just moved a provider from one
\* non-zero operator to another: the old reverse entry is gone and the new
\* one names the provider.
C11_Witness ==
    /\ last.op = "updateOperator"
    /\ last.ok
    /\ replaced # 0
    /\ last.args[2] # 0
    /\ OperatorOf(last.args[1]) = last.args[2]
    /\ ~Confirmed(last.args[1])
    /\ operatorToStakingProvider[replaced] = 0
    /\ operatorToStakingProvider[last.args[2]] = last.args[1]

\* C12: initialize succeeds at most once (after a successful initialize
\* every later initialize, with any coordinator, fails); once coordinator is
\* set no operation changes it; and initialize fails, leaving coordinator
\* as it was (unset, on a fresh registry), for the zero address and for a
\* coordinator whose application reference is not this registry.
C12_InitializeOnceAndValidated ==
    [][/\ (initialized /\ last'.op \in {"initialize", "initializeTestnet"})
              => (~last'.ok /\ UNCHANGED storage)
       /\ coordinator # 0 => coordinator' = coordinator
       /\ (last'.op \in {"initialize", "initializeTestnet"} /\ last'.args[1] = 0)
              => (~last'.ok /\ coordinator' = coordinator)
       /\ (last'.op = "initialize" /\ ~last'.args[2])
              => (~last'.ok /\ coordinator' = coordinator)]_vars

\* C13: updateOperator and both forms of updateAuthorization sent by an
\* address other than rootApplication, and confirmOperatorAddress sent by an
\* address other than coordinator, are rejected; a rejected call leaves every
\* field of the registry unchanged and emits no notification.
C13_RejectedCallsChangeNothing ==
    [][/\ (/\ last'.op \in {"updateOperator", "updateAuthorization",
                            "updateAuthorization2"}
           /\ last'.sender # rootApplication) => ~last'.ok
       /\ (last'.op = "confirmOperatorAddress" /\ last'.sender # coordinator)
              => ~last'.ok
       /\ ~last'.ok => (/\ UNCHANGED storage
                        /\ last'.events = <<>>
                        /\ last'.rootCalls = <<>>)]_vars

\* C13 witness: an address that is not the coordinator has just been turned
\* away with the operator of a provider that the coordinator could have
\* confirmed (bound, authorized, not yet confirmed).
C13_Witness ==
    /\ last.op = "confirmOperatorAddress"
    /\ ~last.ok
    /\ coordinator # 0
    /\ last.sender # coordinator
    /\ LET p == operatorToStakingProvider[last.args[1]]
       IN  /\ p # 0
           /\ stakingProviderInfo[p].authorized >= minimumAuthorization
           /\ ~Confirmed(p)

C15_UpdateOperatorNoOp ==
    [][(last'.op = "updateOperator" /\ last'.sender = rootApplication) =>
          LET p == last'.args[1]
              o == last'.args[2]
          IN  (p = 0 \/ o = OperatorOf(p)) =>
                  /\ last'.ok
                  /\ UNCHANGED storage
                  /\ last'.events = <<>>]_vars

\* C15 witness: the root application has just named a confirmed provider with
\* the operator it already has, and the confirmation is still there.
C15_Witness ==
    /\ last.op = "updateOperator"
    /\ last.ok
    /\ last.sender = rootApplication
    /\ last.events = <<>>
    /\ last.args[1] # 0
    /\ last.args[2] # 0
    /\ OperatorOf(last.args[1]) = last.args[2]
    /\ Confirmed(last.args[1])

\* C16: updateAuthorization sent by the root application changes only the
\* authorized, deauthorizing and endDeauthorization fields of the provider it
\* names, the two-argument form setting the last two to 0: operator,
\* operatorConfirmed, index, stakingProviders, operatorToStakingProvider and
\* every other provider stay as they were, also when authorized goes below
\* minimumAuthorization; when the provider is zero or the three values are
\* the stored ones, nothing changes and nothing is emitted.
C16_UpdateAuthorizationFrame ==
    [][(/\ last'.op \in {"updateAuthorization", "updateAuthorization2"}
        /\ last'.sender = rootApplication) =>
          LET p == last'.args[1]
              a == last'.args[2]
              d == last'.args[3]
              e == last'.args[4]
              info == stakingProviderInfo[p]
          IN  /\ last'.ok
              /\ last'.op = "updateAuthorization2" => (d = 0 /\ e = 0)
              /\ UNCHANGED <<stakingProviders, operatorToStakingProvider,
                             coordinator, initialized, updaters>>
              /\ \A q \in Addr \ {p} :
                     stakingProviderInfo'[q] = stakingProviderInfo[q]
              /\ IF p = 0 \/ (/\ a = info.authorized
                               /\ d = info.deauthorizing
                               /\ e = info.endDeauthorization)
                 THEN UNCHANGED storage /\ last'.events = <<>>
                 ELSE stakingProviderInfo'[p] =
                          [info EXCEPT !.authorized = a,
                                       !.deauthorizing = d,
                                       !.endDeauthorization = e]]_vars

\* C16 witness: the two-argument form has just taken a confirmed, listed
\* provider below the minimum; its operator, confirmation, index and reverse
\* entry are in place.
C16_Witness ==
    /\ last.op = "updateAuthorization2"
    /\ last.ok
    /\ last.events # <<>>
    /\ LET p == last.args[1]
       IN  /\ stakingProviderInfo[p].authorized = last.args[2]
           /\ last.args[2] < minimumAuthorization
           /\ stakingProviderInfo[p].deauthorizing = 0
           /\ stakingProviderInfo[p].endDeauthorization = 0
           /\ Confirmed(p)
           /\ OperatorOf(p) # 0
           /\ operatorToStakingProvider[OperatorOf(p)] = p
           /\ stakingProviderInfo[p].index > 0
           /\ stakingProviders[stakingProviderInfo[p].index] = p

\* C17: a confirmOperatorAddress(o) that succeeds has called
\* confirmOperatorAddress(o) on the root application exactly once; when that
\* call fails the confirmation fails as a whole: nothing is stored
\* (operatorConfirmed stays false), no notification is emitted, and the
\* registry is as it was, so that a later call can confirm the operator.
C17_RootCallOnceOrNothing ==
    [][last'.op = "confirmOperatorAddress" =>
          /\ last'.ok =>
                 /\ last'.rootCalls = <<<<"confirmOperatorAddress", last'.args[1]>>>>
                 /\ last'.events =
                        <<<<"OperatorConfirmed",
                            operatorToStakingProvider[last'.args[1]], last'.args[1]>>>>
          /\ \A o \in Addr :
                 confirmOperatorAddress(coordinator, o, FALSE) =>
                     /\ ~last'.ok
                     /\ UNCHANGED storage
                     /\ last'.events = <<>>
                     /\ last'.rootCalls = <<>>]_vars

\* C17 witness: the coordinator's confirmation has just failed although the
\* operator is bound to a provider that holds the minimum authorization and
\* is not confirmed: the root application turned the call down, and the
\* provider can still be confirmed.
C17_Witness ==
    /\ last.op = "confirmOperatorAddress"
    /\ ~last.ok
    /\ coordinator # 0
    /\ last.sender = coordinator
    /\ LET p == operatorToStakingProvider[last.args[1]]
       IN  /\ p # 0
           /\ stakingProviderInfo[p].authorized >= minimumAuthorization
           /\ ~Confirmed(p)

\* C19: in every reachable state the forward and the reverse operator
\* bindings agree: for every provider p whose operator is a non-zero address
\* o, operatorToStakingProvider[o] = p, also after another provider has been
\* given or has released the same operator.
C19_ForwardReverseAgree ==
    \A p \in Addr :
        OperatorOf(p) # 0 => operatorToStakingProvider[OperatorOf(p)] = p

\* C20: the record of the zero address is never modified and
\* operatorToStakingProvider[0] is never non-zero, so that
\* confirmOperatorAddress(o) fails for every operator o without a reverse
\* entry, o = 0 included; and every provider with operatorConfirmed has a
\* non-zero operator and is in stakingProviders.
C20_ZeroRecordState ==
    /\ stakingProviderInfo[0] = StakingProviderInfo
    /\ operatorToStakingProvider[0] = 0
    /\ \A p \in Addr : Confirmed(p) => (OperatorOf(p) # 0 /\ Listed(p))

C20_UnmappedOperatorStep ==
    (last'.op = "confirmOperatorAddress"
     /\ operatorToStakingProvider[last'.args[1]] = 0) =>
        (~last'.ok /\ UNCHANGED storage /\ last'.events = <<>>)

C20_ZeroProviderUntouched ==
    [](C20_ZeroRecordState) /\ [][C20_UnmappedOperatorStep]_vars

\* C20 witness: the coordinator has just been turned away with the zero
\* address as operator, the zero address having been named as provider in
\* no stored binding, while a provider is confirmed.
C20_Witness ==
    /\ last.op = "confirmOperatorAddress"
    /\ ~last.ok
    /\ coordinator # 0
    /\ last.sender = coordinator
    /\ last.args = <<0>>
    /\ \E p \in Addr \ {0} : Confirmed(p)

\* The claim about the wallet connector is stated with these: whether a
\* Coinbase wallet is injected, whether a message begins with a text, the
\* chain id that a reply stands for, and the step in which the call op
\* learns that no Coinbase wallet is injected (at once when window.ethereum
\* is absent, else when the detection returns).
HasWalletLink(eth) ==
    /\ eth.present
    /\ \/ eth.isWalletLink
       \/ \E i \in 1 .. Len(eth.providers) : eth.providers[i].isWalletLink

StartsWith(str, prefix) ==
    /\ Len(str) >= Len(prefix)
    /\ SubSeq(str, 1, Len(prefix)) = prefix

ExpectedChainId(reply) == CASE reply = "0x1" -> 1 [] reply = "0x89" -> 137

NoWalletStep(op) ==
    /\ op = "getCoinbaseProvider" \/ ~provider.set
    /\ \/ ~ethereum.present /\ Begin(op)
       \/ ~HasWalletLink(ethereum) /\ pending.op = op /\ DetectProviderReturns

\* C18: when no Coinbase wallet is injected, getCoinbaseProvider, init and
\* connectEagerly end without failing: they return nothing, leave provider
\* unset and emit no update; activate fails with an Error whose message
\* begins with 'Could not activate connector', both then and when an RPC
\* call is rejected; an update carrying the chain id and the accounts is
\* emitted only when both RPC calls of connectEagerly or activate have
\* succeeded; connectEagerly swallows a rejected RPC call and emits nothing.
C18_ConnectorOutcomes ==
    [][/\ \A op \in {"getCoinbaseProvider", "init", "connectEagerly"} :
              NoWalletStep(op) =>
                  /\ pending'.op = "none"
                  /\ result'.op = op
                  /\ result'.ok
                  /\ ~result'.ret.set
                  /\ provider' = provider
                  /\ updates' = updates
       /\ NoWalletStep("activate") =>
              /\ pending'.op = "none"
              /\ result'.op = "activate"
              /\ ~result'.ok
              /\ StartsWith(result'.error, "Could not activate connector")
              /\ ~provider'.set
              /\ updates' = updates
       /\ \A e \in RpcErrors :
              (ChainIdReturns(ChainIdRejected(e)) \/ AccountsReturns(AccountsRejected(e))) =>
                  /\ pending'.op = "none"
                  /\ result'.op = pending.op
                  /\ updates' = updates
                  /\ IF pending.op = "activate"
                     THEN /\ ~result'.ok
                          /\ StartsWith(result'.error, "Could not activate connector")
                     ELSE result'.ok
       /\ result'.op \in {"getCoinbaseProvider", "init", "connectEagerly"}
              => result'.ok
       /\ updates' # updates =>
              /\ pending.op \in {"connectEagerly", "activate"}
              /\ pending.pc = "accounts"
              /\ pending.chainId \in ChainIdInputs
              /\ result'.op = pending.op
              /\ result'.ok
              /\ \E a \in AccountsInputs :
                     /\ AccountsReturns(Replied(a))
                     /\ updates' = Append(updates,
                                          [chainId |-> ExpectedChainId(pending.chainId),
                                           accounts |-> a])]_vars

\* C18 witness: activate() has just been rejected because an RPC call was,
\* with the reason after the fixed text, in a connector that has a provider
\* and had emitted an update before.
C18_Witness ==
    /\ pending.op = "none"
    /\ result.op = "activate"
    /\ ~result.ok
    /\ StartsWith(result.error, "Could not activate connector")
    /\ Len(result.error) > Len("Could not activate connector: ")
    /\ provider.set
    /\ Len(updates) = 1
    /\ updates[1].chainId = 137

\* C21: in every state reached through updateAuthorization calls with any
\* 96-bit amounts, eligibleStake(p, t) and getActiveStakingProviders never
\* fail on arithmetic: deauthorizing <= authorized for every provider with a
\* pending deauthorization, so that authorized - deauthorizing does not
\* underflow, and the running total of the eligible stakes of a non-empty
\* list stays within the 96-bit range.
C21_ArithmeticNeverFails ==
    /\ \A p \in Addr :
           stakingProviderInfo[p].endDeauthorization > 0 =>
               stakingProviderInfo[p].deauthorizing <= stakingProviderInfo[p].authorized
    /\ \A p \in Addr : \A t \in 0 .. MaxUint256 : eligibleStake(p, t).ok
    /\ stakingProviders # <<>> =>
           \A duration \in 0 .. MaxDuration : \A now \in Times :
               LET r == getActiveStakingProviders(0, 0, duration, now)
               IN  r.ok /\ r.allAuthorizedTokens <= MaxUint96

====
